---------------------------- MODULE Spec2Model ----------------------------
(***************************************************************************)
(* Model of src/src/config/mod.rs: the archetype registry (Config and its  *)
(* find_* lookups), the advancement tier model (AdvancementSet), the two   *)
(* sum aggregators (HacksteadAdvancementSum, PlantAdvancementSum), the     *)
(* corpus validator (archetype_name_matches) and the lazily built CONFIG.  *)
(*                                                                         *)
(* Rust indices are zero-based and TLA+ sequences one-based: every index   *)
(* and handle below is the Rust value, and rest[i] of the source is        *)
(* rest[i + 1] here.                                                       *)
(***************************************************************************)
EXTENDS Integers, Sequences, FiniteSets, Bags, TLC

VARIABLES
    CONFIG,     \* the value of the CONFIG static, or Unloaded
    last,       \* the most recent call made on the model and its outcome
    prev,       \* the call before that one
    once,       \* state of the Once guarding CONFIG's initializer
    docs,       \* for each of the four documents: "ok", "unreadable", "malformed"
    building,   \* documents the running initializer has already parsed
    pc,         \* per thread: position in its first access of CONFIG
    seen,       \* per thread: the value its dereference of CONFIG yielded
    builds      \* how many times the initializer block has been entered

vars == <<CONFIG, last, prev, once, docs, building, pc, seen, builds>>

-----------------------------------------------------------------------------
(* Bounds of the model *)

MaxRest == 3        \* longest rest of the hackstead advancement set
MaxSlice == 3       \* longest rest of the plant folded in SpecFold
MaxPoss == 2        \* longest possession list in SpecCorpus
MaxPlantRest == 2   \* longest rest of a plant in SpecCorpus
MaxLookup == 3      \* longest possession list in SpecLookup
NThreads == 2       \* concurrent first callers of CONFIG
FPrecision == 3     \* significand bits of the scaled-down binary float
FEmax == 3          \* largest exponent of the scaled-down binary float

-----------------------------------------------------------------------------
(* Option<T> and the iterator adaptors the source uses *)

None == [some |-> FALSE]
Some(v) == [some |-> TRUE, val |-> v]
unwrap_or(o, d) == IF o.some THEN o.val ELSE d

SeqsUpTo(S, n) == UNION {[1..k -> S] : k \in 0..n}

-----------------------------------------------------------------------------
(* Advancement<S> and AdvancementSet<S> *)

Adv(kind, xp, title) == [kind |-> kind, xp |-> xp, title |-> title]

\* Iterator::position(|x| x.xp > xp) over rest, scanning from the front
RECURSIVE position_xp_gt(_, _, _)
position_xp_gt(rest, xp, i) ==
    IF i > Len(rest) THEN None
    ELSE IF rest[i].xp > xp THEN Some(i - 1)
    ELSE position_xp_gt(rest, xp, i + 1)

\* Iterator::find(|x| x.xp > xp) over rest, scanning from the front
RECURSIVE find_xp_gt(_, _, _)
find_xp_gt(rest, xp, i) ==
    IF i > Len(rest) THEN None
    ELSE IF rest[i].xp > xp THEN Some(rest[i])
    ELSE find_xp_gt(rest, xp, i + 1)

\* a fully progressed xp yields the whole of rest
current_position_len(set, xp) ==
    unwrap_or(position_xp_gt(set.rest, xp, 1), Len(set.rest))

\* the number of tiers still locked, not the index of the first of them
current_position_locked(set, xp) ==
    Cardinality({i \in 1..Len(set.rest) : set.rest[i].xp > xp})

current_position(set, xp) ==
    unwrap_or(position_xp_gt(set.rest, xp, 1), 0)

\* the tier at current_position's index, base only when that is out of range
current_at_position(set, xp) ==
    IF current_position(set, xp) < Len(set.rest)
    THEN set.rest[current_position(set, xp) + 1]
    ELSE set.base

current(set, xp) ==
    unwrap_or(find_xp_gt(set.rest, xp, 1), set.base)

\* base left out of the full tier sequence
all_rest(set) == set.rest

all(set) == <<set.base>> \o set.rest

\* &self.rest[0..n]: panics when n > len
Slice(rest, n) ==
    IF n > Len(rest) THEN [panic |-> "range end index out of range"]
    ELSE [panic |-> "", slice |-> SubSeq(rest, 1, n)]

-----------------------------------------------------------------------------
(* HacksteadAdvancementSum *)

Land(pieces) == [tag |-> "Land", pieces |-> pieces]

\* unlocked.iter().map(|k| pieces).sum() on usize; the piece counts of the
\* model stay far below usize::MAX, where the sum neither wraps nor panics
RECURSIVE iter_sum_pieces(_, _)
iter_sum_pieces(unlocked, i) ==
    IF i > Len(unlocked) THEN 0
    ELSE unlocked[i].kind.pieces + iter_sum_pieces(unlocked, i + 1)

\* only the first unlocked tier counted
HacksteadNewFirst(unlocked) ==
    [land |-> IF unlocked = <<>> THEN 0 ELSE unlocked[1].kind.pieces]

HacksteadNew(unlocked) == [land |-> iter_sum_pieces(unlocked, 1)]

-----------------------------------------------------------------------------
(* f32, scaled down: a binary floating-point format with FPrecision        *)
(* significand bits, exponents FEmin..FEmax, gradual underflow, rounding   *)
(* to nearest with ties to even, overflow to infinity.  A finite non-zero  *)
(* value is m * 2^e with m odd.  f32 itself is the same format with 24     *)
(* significand bits and exponents -126..127.  Only non-negative values     *)
(* are modelled.                                                           *)

FEmin == 1 - FEmax

RECURSIVE Pow2(_)
Pow2(n) == IF n = 0 THEN 1 ELSE 2 * Pow2(n - 1)

RECURSIVE BitLen(_)
BitLen(m) == IF m = 0 THEN 0 ELSE 1 + BitLen(m \div 2)

FZero == [cls |-> "zero", m |-> 0, e |-> 0]
FInf == [cls |-> "inf", m |-> 0, e |-> 0]
FNaN == [cls |-> "nan", m |-> 0, e |-> 0]

RECURSIVE FCanon(_, _)
FCanon(m, e) ==
    IF m % 2 = 0 THEN FCanon(m \div 2, e + 1)
    ELSE [cls |-> "fin", m |-> m, e |-> e]

F(m, e) == FCanon(m, e)
FOne == F(1, 0)

\* the value m * 2^e (m > 0) rounded into the format
FRound(m, e) ==
    LET E == e + BitLen(m) - 1
        lo == IF E < FEmin THEN FEmin ELSE E
        qe == lo - FPrecision + 1
        shift == qe - e
        q == m \div Pow2(shift)
        r == m % Pow2(shift)
        half == Pow2(shift - 1)
        up == IF r > half \/ (r = half /\ q % 2 = 1) THEN q + 1 ELSE q
        res == IF shift <= 0 THEN FCanon(m, e)
               ELSE IF up = 0 THEN FZero
               ELSE FCanon(up, qe)
    IN  IF res.cls = "fin" /\ res.e + BitLen(res.m) - 1 > FEmax THEN FInf
        ELSE res

\* a * b on f32
FMul(a, b) ==
    IF a.cls = "nan" \/ b.cls = "nan" THEN FNaN
    ELSE IF a.cls = "inf" \/ b.cls = "inf"
         THEN IF a.cls = "zero" \/ b.cls = "zero" THEN FNaN ELSE FInf
    ELSE IF a.cls = "zero" \/ b.cls = "zero" THEN FZero
    ELSE FRound(a.m * b.m, a.e + b.e)

-----------------------------------------------------------------------------
(* Config and its lookups *)

Unloaded == [loaded |-> FALSE]

Config(users, hackstead, plants, possessions) ==
    [loaded |-> TRUE,
     special_users |-> users,
     hackstead_advancements |-> hackstead,
     plant_archetypes |-> plants,
     possession_archetypes |-> possessions]

Ok(v) == [ok |-> TRUE, val |-> v]
UnknownArchetypeName(name) ==
    [ok |-> FALSE, val |-> [err |-> "UnknownArchetypeName", name |-> name]]

\* Iterator::position(|x| name == x.name), scanning from the front
RECURSIVE position_name(_, _, _)
position_name(archetypes, name, i) ==
    IF i > Len(archetypes) THEN None
    ELSE IF name = archetypes[i].name THEN Some(i - 1)
    ELSE position_name(archetypes, name, i + 1)

\* Iterator::find(|x| name == x.name), scanning from the front
RECURSIVE find_name(_, _, _)
find_name(archetypes, name, i) ==
    IF i > Len(archetypes) THEN None
    ELSE IF name = archetypes[i].name THEN Some(archetypes[i])
    ELSE find_name(archetypes, name, i + 1)

\* Iterator::position scanning from the back
RECURSIVE rposition_name(_, _, _)
rposition_name(archetypes, name, i) ==
    IF i < 1 THEN None
    ELSE IF name = archetypes[i].name THEN Some(i - 1)
    ELSE rposition_name(archetypes, name, i - 1)

ok_or(o, e) == IF o.some THEN Ok(o.val) ELSE e

find_plant(cfg, name) ==
    ok_or(find_name(cfg.plant_archetypes, name, 1), UnknownArchetypeName(name))

find_possession(cfg, name) ==
    ok_or(find_name(cfg.possession_archetypes, name, 1),
          UnknownArchetypeName(name))

\* the last occurrence of a duplicated name wins
find_possession_handle_last(cfg, name) ==
    ok_or(rposition_name(cfg.possession_archetypes, name,
                         Len(cfg.possession_archetypes)),
          UnknownArchetypeName(name))

\* the handle looked up in the plant registry instead of the possessions
find_possession_handle_in_plants(cfg, name) ==
    ok_or(position_name(cfg.plant_archetypes, name, 1),
          UnknownArchetypeName(name))

find_possession_handle(cfg, name) ==
    ok_or(position_name(cfg.possession_archetypes, name, 1),
          UnknownArchetypeName(name))

\* archetype kinds
Gotchi(base_happiness) == [tag |-> "Gotchi", base_happiness |-> base_happiness]
Seed(grows_into) == [tag |-> "Seed", grows_into |-> grows_into]
Keepsake == [tag |-> "Keepsake"]
Archetype(name, kind) == [name |-> name, kind |-> kind]
PlantArchetype(name, advancements) ==
    [name |-> name, advancements |-> advancements]

-----------------------------------------------------------------------------
(* PlantAdvancementSum *)

Xp(multiplier) == [tag |-> "Xp", multiplier |-> multiplier]
YieldSpeed(multiplier) == [tag |-> "YieldSpeed", multiplier |-> multiplier]
YieldNeighboringSize(multiplier) ==
    [tag |-> "YieldNeighboringSize", multiplier |-> multiplier]
Yield(resources) == [tag |-> "Yield", resources |-> resources]
Craft(recipes) == [tag |-> "Craft", recipes |-> recipes]
Recipe(needs, makes) == [needs |-> needs, makes |-> makes]

\* the outcome of a call: a value, or a panic with its message
Done(v) == [panic |-> FALSE, val |-> v]
Panicked(msg, info) == [panic |-> TRUE, val |-> [msg |-> msg, info |-> info]]

\* pairs.iter().map(|(c, s)| Ok((*c, CONFIG.find_possession_handle(s)?)))
\*      .collect::<Result<Vec<_>, ConfigError>>(): stops at the first Err
RECURSIVE resolve_pairs(_, _, _)
resolve_pairs(cfg, pairs, i) ==
    IF i > Len(pairs) THEN Ok(<<>>)
    ELSE LET h == find_possession_handle(cfg, pairs[i][2])
         IN  IF ~h.ok THEN h
             ELSE LET tl == resolve_pairs(cfg, pairs, i + 1)
                  IN  IF ~tl.ok THEN tl
                      ELSE Ok(<<<<pairs[i][1], h.val>>>> \o tl.val)

\* Recipe { makes: find_possession_handle(&r.makes)?, needs: ...collect()? }
resolve_recipe(cfg, r) ==
    LET makes == find_possession_handle(cfg, r.makes)
    IN  IF ~makes.ok THEN makes
        ELSE LET needs == resolve_pairs(cfg, r.needs, 1)
             IN  IF ~needs.ok THEN needs
                 ELSE Ok(Recipe(needs.val, makes.val))

RECURSIVE resolve_recipes(_, _, _)
resolve_recipes(cfg, recipes, i) ==
    IF i > Len(recipes) THEN Ok(<<>>)
    ELSE LET r == resolve_recipe(cfg, recipes[i])
         IN  IF ~r.ok THEN r
             ELSE LET tl == resolve_recipes(cfg, recipes, i + 1)
                  IN  IF ~tl.ok THEN tl
                      ELSE Ok(<<r.val>> \o tl.val)

\* Vec::append mistaken for an assignment
append_replace(v, items) == items

\* Vec::append
append(v, items) == v \o items

PlantIdentity ==
    [xp_multiplier |-> FOne,
     yield_speed_multiplier |-> FOne,
     yields |-> <<>>,
     recipes |-> <<>>]

\* the body of `for k in unlocked.iter()`, from the i-th tier on
RECURSIVE plant_fold(_, _, _, _)
plant_fold(cfg, unlocked, i, sum) ==
    IF i > Len(unlocked) THEN Done(sum)
    ELSE LET k == unlocked[i].kind
         IN  CASE k.tag = "Xp" ->
                    plant_fold(cfg, unlocked, i + 1,
                        [sum EXCEPT !.xp_multiplier = FMul(@, k.multiplier)])
               [] k.tag = "YieldSpeed" ->
                    plant_fold(cfg, unlocked, i + 1,
                        [sum EXCEPT !.yield_speed_multiplier =
                                        FMul(@, k.multiplier)])
               [] k.tag = "YieldNeighboringSize" ->
                    plant_fold(cfg, unlocked, i + 1, sum)
               [] k.tag = "Yield" ->
                    LET r == resolve_pairs(cfg, k.resources, 1)
                    IN  IF ~r.ok
                        THEN Panicked("couldn't find archetype for advancement yield", r.val)
                        ELSE plant_fold(cfg, unlocked, i + 1,
                                 [sum EXCEPT !.yields = append(@, r.val)])
               [] k.tag = "Craft" ->
                    LET r == resolve_recipes(cfg, k.recipes, 1)
                    IN  IF ~r.ok
                        THEN Panicked("couldn't find archetype for crafting advancement", r.val)
                        ELSE plant_fold(cfg, unlocked, i + 1,
                                 [sum EXCEPT !.recipes = append(@, r.val)])

PlantNew(cfg, unlocked) == plant_fold(cfg, unlocked, 1, PlantIdentity)

-----------------------------------------------------------------------------
(* AdvancementSet<S>::sum and ::max, S one of the two aggregators *)

SumNew(S, cfg, unlocked) ==
    IF S = "Hackstead" THEN Done(HacksteadNew(unlocked))
    ELSE PlantNew(cfg, unlocked)

\* &self.rest[0..self.current_position(xp) + 1]
sum_slice_through(set, xp) == Slice(set.rest, current_position(set, xp) + 1)

\* &self.rest[0..self.current_position(xp)]
sum_slice(set, xp) == Slice(set.rest, current_position(set, xp))

sum(S, cfg, set, xp) ==
    LET s == sum_slice(set, xp)
    IN  IF s.panic # "" THEN Panicked(s.panic, xp) ELSE SumNew(S, cfg, s.slice)

max(S, cfg, set) == SumNew(S, cfg, set.rest)

-----------------------------------------------------------------------------
(* Calls made on the model and what they returned *)

NoCall == [op |-> "none", on |-> 0, arg |-> 0, out |-> 0]
Call(op, on, arg, out) == [op |-> op, on |-> on, arg |-> arg, out |-> out]

Threads == 1..NThreads
Documents ==
    <<"special_users", "hackstead_advancements", "plant_archetypes",
      "possession_archetypes">>

\* the state of the statics once CONFIG has been built from readable
\* documents by an earlier access, before the threads of the model touch it
Built(cfg) ==
    /\ CONFIG = cfg
    /\ once = "complete"
    /\ docs = [d \in 1..Len(Documents) |-> "ok"]
    /\ building = Len(Documents)
    /\ pc = [t \in Threads |-> "idle"]
    /\ seen = [t \in Threads |-> Unloaded]
    /\ builds = 1

statics == <<CONFIG, once, docs, building, pc, seen, builds>>

Swap(s, i, j) ==
    [k \in 1..Len(s) |-> IF k = i THEN s[j] ELSE IF k = j THEN s[i] ELSE s[k]]

\* s itself and s with any two of its elements exchanged
Reorderings(s) == {s} \cup {Swap(s, i, j) : i, j \in 1..Len(s)}

-----------------------------------------------------------------------------
(* Spec: the hackstead advancement set and the calls on it *)

HThresholds == {100, 500}
HPieces == {5, 10}
Queries == {50, 100, 150, 600}

HTiers == {Adv(Land(p), x, "") : p \in HPieces, x \in HThresholds}
HBase == Adv(Land(0), 0, "")
HSets == {[base |-> HBase, rest |-> r] : r \in SeqsUpTo(HTiers, MaxRest)}

Init ==
    /\ \E h \in HSets : Built(Config(<<>>, h, <<>>, <<>>))
    /\ last = NoCall
    /\ prev = NoCall

Record(c) ==
    /\ last' = c
    /\ prev' = last
    /\ UNCHANGED statics

HSum(xp) ==
    Record(Call("sum", 0, xp,
                sum("Hackstead", CONFIG, CONFIG.hackstead_advancements, xp)))

HMax ==
    Record(Call("max", 0, 0,
                max("Hackstead", CONFIG, CONFIG.hackstead_advancements)))

HCurrent(xp) ==
    Record(Call("current", 0, xp, current(CONFIG.hackstead_advancements, xp)))

HCurrentPosition(xp) ==
    Record(Call("current_position", 0, xp,
                current_position(CONFIG.hackstead_advancements, xp)))

HAll == Record(Call("all", 0, 0, all(CONFIG.hackstead_advancements)))

\* HacksteadAdvancementSum::new on the tiers of rest, in some order
HNew(unlocked) == Record(Call("new", 0, unlocked, HacksteadNew(unlocked)))

Next ==
    \/ \E xp \in Queries : HSum(xp)
    \/ HMax
    \/ \E xp \in Queries : HCurrent(xp)
    \/ \E xp \in Queries : HCurrentPosition(xp)
    \/ HAll
    \/ \E unlocked \in Reorderings(CONFIG.hackstead_advancements.rest) :
          HNew(unlocked)

Spec == Init /\ [][Next]_vars

-----------------------------------------------------------------------------
(* Properties of the advancement set, checked under Spec *)

HSet == CONFIG.hackstead_advancements

\* indices (one-based) of the tiers of rest whose threshold exceeds xp
Locked(rest, xp) == {i \in 1..Len(rest) : rest[i].xp > xp}

Least(S) == CHOOSE i \in S : \A j \in S : i <= j

Sorted(rest) == \A i, j \in 1..Len(rest) : i <= j => rest[i].xp <= rest[j].xp

RECURSIVE SumOver(_, _)
SumOver(f, S) ==
    IF S = {} THEN 0
    ELSE LET i == CHOOSE k \in S : TRUE IN f[i] + SumOver(f, S \ {i})

PiecesOf(tiers) ==
    SumOver([i \in 1..Len(tiers) |-> tiers[i].kind.pieces], 1..Len(tiers))

ExampleSet ==
    [base |-> HBase,
     rest |-> <<Adv(Land(5), 100, ""), Adv(Land(10), 500, "")>>]

\* C1: sum(xp) is Sum::new of the prefix of rest that ends before the first
\* tier whose threshold is strictly greater than xp, and of the empty prefix
\* when no tier has such a threshold; on the example set sum(50).land = 0,
\* sum(150).land = 5, sum(600).land = 0 and max().land = 15.
C1_SumFoldsPrefixBeforeFirstLocked ==
    /\ last.op = "sum" =>
          LET locked == Locked(HSet.rest, last.arg)
              p == IF locked = {} THEN 0 ELSE Least(locked) - 1
          IN  /\ last.out = Done(HacksteadNew(SubSeq(HSet.rest, 1, p)))
              /\ locked = {} => last.out = Done(HacksteadNew(<<>>))
    /\ HSet = ExampleSet =>
          /\ last.op = "sum" /\ last.arg = 50 => last.out = Done([land |-> 0])
          /\ last.op = "sum" /\ last.arg = 150 => last.out = Done([land |-> 5])
          /\ last.op = "sum" /\ last.arg = 600 => last.out = Done([land |-> 0])
          /\ last.op = "max" => last.out = Done([land |-> 15])

C1_Witness ==
    /\ HSet = ExampleSet
    /\ prev = Call("sum", 0, 150, Done([land |-> 5]))
    /\ last = Call("sum", 0, 600, Done([land |-> 0]))

\* C2: on a set whose rest is sorted ascending, for xp1 <= xp2 the position of
\* xp1 is at most that of xp2 whenever some tier's threshold exceeds xp2; the
\* position only ever decreases when xp2 is at or past every threshold, where
\* it is 0.
C2_PositionMonotoneBelowTop ==
    (/\ prev.op = "current_position"
     /\ last.op = "current_position"
     /\ Sorted(HSet.rest)
     /\ prev.arg <= last.arg)
    => /\ Locked(HSet.rest, last.arg) # {} => prev.out <= last.out
       /\ prev.out > last.out =>
             Locked(HSet.rest, last.arg) = {} /\ last.out = 0

C2_Witness ==
    /\ prev.op = "current_position"
    /\ last.op = "current_position"
    /\ Sorted(HSet.rest)
    /\ prev.arg < last.arg
    /\ Locked(HSet.rest, last.arg) # {}
    /\ prev.out < last.out

\* C3: current(xp) is the tier of rest at index current_position(xp) when some
\* tier's threshold exceeds xp, and base otherwise.
C3_CurrentIsTierAtPositionOrBase ==
    last.op = "current" =>
        IF Locked(HSet.rest, last.arg) # {}
        THEN /\ current_position(HSet, last.arg) < Len(HSet.rest)
             /\ last.out = HSet.rest[current_position(HSet, last.arg) + 1]
        ELSE last.out = HSet.base

C3_Witness ==
    /\ prev.op = "current_position"
    /\ last.op = "current"
    /\ prev.arg = last.arg
    /\ HSet.rest # <<>>
    /\ Locked(HSet.rest, last.arg) = {}
    /\ prev.out = 0
    /\ last.out = HSet.base

\* C4: HacksteadAdvancementSum::new gives land = the sum of pieces over the
\* tiers of the slice, the same for every ordering of the slice, 15 for
\* [Land{5}, Land{10}] in either order and 0 for the empty slice.
C4_LandIsOrderFreeSumOfPieces ==
    /\ last.op = "new" =>
          /\ last.out.land = PiecesOf(last.arg)
          /\ last.arg = <<>> => last.out.land = 0
          /\ prev.op = "new" => prev.out = last.out
          /\ prev.op = "max" => prev.out = Done(last.out)
    /\ (/\ last.op = "new"
        /\ Len(last.arg) = 2
        /\ {last.arg[1].kind, last.arg[2].kind} = {Land(5), Land(10)})
       => last.out.land = 15

C4_Witness ==
    /\ prev.op = "new"
    /\ last.op = "new"
    /\ prev.arg # last.arg
    /\ <<prev.arg[1].kind, prev.arg[2].kind>> = <<Land(5), Land(10)>>
    /\ <<last.arg[1].kind, last.arg[2].kind>> = <<Land(10), Land(5)>>
    /\ Len(last.arg) = 2
    /\ last.out.land = 15

\* C10: on a set whose rest is sorted ascending and an xp below some
\* threshold, the slice sum(xp) folds holds exactly the tiers of rest whose
\* threshold is at most xp; and for every set and every xp the slice bounds
\* lie within rest, so that taking the slice never panics.
C10_SliceIsExactlyTheUnlockedTiers ==
    last.op = "sum" =>
        LET s == sum_slice(HSet, last.arg)
        IN  /\ s.panic = ""
            /\ ~last.out.panic
            /\ (Sorted(HSet.rest) /\ Locked(HSet.rest, last.arg) # {}) =>
                  /\ \A i \in 1..Len(HSet.rest) :
                        HSet.rest[i].xp <= last.arg <=> i <= Len(s.slice)
                  /\ s.slice = SubSeq(HSet.rest, 1, Len(s.slice))

C10_Witness ==
    /\ last.op = "sum"
    /\ Sorted(HSet.rest)
    /\ Locked(HSet.rest, last.arg) # {}
    /\ Len(sum_slice(HSet, last.arg).slice) = 2
    /\ Len(HSet.rest) = 3

-----------------------------------------------------------------------------
(* SpecLookup: the possession registry and the lookups by name *)

LookupArchetypes ==
    {Archetype("acorn", Keepsake), Archetype("acorn", Gotchi(5)),
     Archetype("bark", Keepsake), Archetype("bark", Seed("oak"))}
LookupNames == {"acorn", "bark", "cone"}

InitLookup ==
    /\ \E ps \in SeqsUpTo(LookupArchetypes, MaxLookup) :
          Built(Config(<<>>, [base |-> HBase, rest |-> <<>>], <<>>, ps))
    /\ last = NoCall
    /\ prev = NoCall

FindPossession(name) ==
    Record(Call("find_possession", 0, name, find_possession(CONFIG, name)))

FindPossessionHandle(name) ==
    Record(Call("find_possession_handle", 0, name,
                find_possession_handle(CONFIG, name)))

NextLookup ==
    \/ \E name \in LookupNames : FindPossession(name)
    \/ \E name \in LookupNames : FindPossessionHandle(name)

SpecLookup == InitLookup /\ [][NextLookup]_vars

\* one-based indices of the possession archetypes called name
Named(name) ==
    {i \in 1..Len(CONFIG.possession_archetypes) :
        CONFIG.possession_archetypes[i].name = name}

\* C7: find_possession_handle(name) is the smallest zero-based index of an
\* archetype called name and is below the length of the list,
\* find_possession(name) is the archetype at that index, and both are
\* UnknownArchetypeName(name) exactly when no archetype has that name.
C7_LookupIsFirstOccurrence ==
    /\ last.op = "find_possession_handle" =>
          IF Named(last.arg) = {}
          THEN last.out = UnknownArchetypeName(last.arg)
          ELSE /\ last.out = Ok(Least(Named(last.arg)) - 1)
               /\ last.out.val < Len(CONFIG.possession_archetypes)
    /\ last.op = "find_possession" =>
          IF Named(last.arg) = {}
          THEN last.out = UnknownArchetypeName(last.arg)
          ELSE last.out =
                  Ok(CONFIG.possession_archetypes[Least(Named(last.arg))])
    /\ (/\ prev.op = "find_possession_handle"
        /\ last.op = "find_possession"
        /\ prev.arg = last.arg)
       => /\ prev.out.ok <=> last.out.ok
          /\ prev.out.ok =>
                last.out.val = CONFIG.possession_archetypes[prev.out.val + 1]

C7_Witness ==
    /\ CONFIG.possession_archetypes =
          <<Archetype("bark", Keepsake), Archetype("acorn", Gotchi(5)),
            Archetype("acorn", Keepsake)>>
    /\ prev = Call("find_possession_handle", 0, "acorn", Ok(1))
    /\ last = Call("find_possession", 0, "acorn",
                   Ok(Archetype("acorn", Gotchi(5))))

-----------------------------------------------------------------------------
(* SpecFold: PlantAdvancementSum::new on the tiers of one plant, in the    *)
(* authored order and with two tiers exchanged                             *)

FoldPossessions ==
    <<Archetype("acorn", Keepsake), Archetype("bark", Keepsake)>>

FoldKinds ==
    {Xp(F(7, -2)), Xp(F(2, 0)), Xp(F(3, 0)),
     YieldSpeed(F(3, 0)),
     Yield(<< <<F(1, 0), "acorn">> >>),
     Yield(<< <<F(2, 0), "bark">> >>),
     Craft(<<Recipe(<< <<1, "bark">> >>, "acorn")>>)}

FoldTiers == {Adv(k, 100, "") : k \in FoldKinds}

InitFold ==
    /\ \E r \in SeqsUpTo(FoldTiers, MaxSlice) :
          Built(Config(<<>>, [base |-> HBase, rest |-> <<>>],
                       <<PlantArchetype("oak",
                            [base |-> Adv(Xp(FOne), 0, ""), rest |-> r])>>,
                       FoldPossessions))
    /\ last = NoCall
    /\ prev = NoCall

\* PlantAdvancementSum::new on the tiers of rest, in some order
PNew(unlocked) ==
    Record(Call("new", 0, unlocked, PlantNew(CONFIG, unlocked)))

NextFold ==
    \E unlocked \in Reorderings(CONFIG.plant_archetypes[1].advancements.rest) :
        PNew(unlocked)

SpecFold == InitFold /\ [][NextFold]_vars

BagOfSeq(q) ==
    [x \in {q[i] : i \in 1..Len(q)} |->
        Cardinality({i \in 1..Len(q) : q[i] = x})]

CountTag(tiers, tag) ==
    Cardinality({i \in 1..Len(tiers) : tiers[i].kind.tag = tag})

KindsOf(tiers) == [i \in 1..Len(tiers) |-> tiers[i].kind]

\* two completed folds of the same tiers in two orders
TwoFolds ==
    /\ prev.op = "new"
    /\ last.op = "new"
    /\ ~prev.out.panic
    /\ ~last.out.panic

\* C5 as stated: re-ordering the tiers of a slice whose names all resolve
\* changes nothing of what PlantAdvancementSum::new returns: xp_multiplier,
\* yield_speed_multiplier, yields and recipes are the same, and [Xp{2}, Xp{3}]
\* gives xp_multiplier 6 in either order.
C5_FoldUnchangedByReordering ==
    /\ TwoFolds => prev.out = last.out
    /\ (last.op = "new" /\ KindsOf(last.arg) \in
            {<<Xp(F(2, 0)), Xp(F(3, 0))>>, <<Xp(F(3, 0)), Xp(F(2, 0))>>})
       => last.out.val.xp_multiplier = F(6, 0)

\* C5 amended: re-ordering leaves yields and recipes unchanged as multisets
\* (their order follows the order of the slice), leaves xp_multiplier
\* unchanged when the slice holds at most two Xp tiers and
\* yield_speed_multiplier unchanged when it holds at most two YieldSpeed
\* tiers; [Xp{2}, Xp{3}] gives xp_multiplier 6 in either order.
C5_FoldUnchangedUpToListOrderAndRounding ==
    /\ TwoFolds =>
          /\ BagOfSeq(prev.out.val.yields) = BagOfSeq(last.out.val.yields)
          /\ BagOfSeq(prev.out.val.recipes) = BagOfSeq(last.out.val.recipes)
          /\ Len(prev.out.val.yields) = Len(last.out.val.yields)
          /\ Len(prev.out.val.recipes) = Len(last.out.val.recipes)
          /\ CountTag(last.arg, "Xp") <= 2 =>
                prev.out.val.xp_multiplier = last.out.val.xp_multiplier
          /\ CountTag(last.arg, "YieldSpeed") <= 2 =>
                prev.out.val.yield_speed_multiplier =
                    last.out.val.yield_speed_multiplier
    /\ (last.op = "new" /\ KindsOf(last.arg) \in
            {<<Xp(F(2, 0)), Xp(F(3, 0))>>, <<Xp(F(3, 0)), Xp(F(2, 0))>>})
       => last.out = Done([PlantIdentity EXCEPT !.xp_multiplier = F(6, 0)])

C5_Witness ==
    /\ TwoFolds
    /\ KindsOf(prev.arg) = <<Yield(<< <<F(1, 0), "acorn">> >>),
                             Xp(F(3, 0)),
                             Yield(<< <<F(2, 0), "bark">> >>)>>
    /\ prev.out.val.yields = << <<F(1, 0), 0>>, <<F(2, 0), 1>> >>
    /\ last.out.val.yields = << <<F(2, 0), 1>>, <<F(1, 0), 0>> >>
    /\ last.out.val.xp_multiplier = F(3, 0)

\* three Xp tiers whose product depends on the order of the multiplications
C5_RoundingWitness ==
    /\ TwoFolds
    /\ CountTag(last.arg, "Xp") = 3
    /\ prev.out.val.xp_multiplier # last.out.val.xp_multiplier

-----------------------------------------------------------------------------
(* archetype_name_matches: the corpus validator *)

RECURSIVE Flatten(_)
Flatten(ss) == IF ss = <<>> THEN <<>> ELSE Head(ss) \o Flatten(Tail(ss))

Failure(msg, info) == [msg |-> msg, info |-> info]

\* first loop: the failing assert! of each possession archetype, in order
seed_failures(cfg) ==
    Flatten([i \in 1..Len(cfg.possession_archetypes) |->
        LET a == cfg.possession_archetypes[i]
        IN  IF a.kind.tag = "Seed" /\ ~find_plant(cfg, a.kind.grows_into).ok
            THEN <<Failure("seed archetype claims it grows into unknown plant archetype",
                           [owner |-> a.name, ref |-> a.kind.grows_into])>>
            ELSE <<>>])

\* the arm Yield { resources }
yield_failures(cfg, arch, adv) ==
    Flatten([i \in 1..Len(adv.kind.resources) |->
        LET item_name == adv.kind.resources[i][2]
        IN  IF ~find_possession(cfg, item_name).ok
            THEN <<Failure("Yield advancement for plant includes unknown resource",
                           [title |-> adv.title, owner |-> arch.name,
                            ref |-> item_name])>>
            ELSE <<>>])

\* the body of `for Recipe { makes, needs } in recipes.iter()`
recipe_failures(cfg, arch, adv, r) ==
    (IF ~find_possession(cfg, r.makes).ok
     THEN <<Failure("Crafting advancement for plant produces unknown resource",
                    [title |-> adv.title, owner |-> arch.name,
                     ref |-> r.makes])>>
     ELSE <<>>)
    \o Flatten([i \in 1..Len(r.needs) |->
        LET resource == r.needs[i][2]
        IN  IF ~find_possession(cfg, resource).ok
            THEN <<Failure("Crafting advancement for plant uses unknown resource in recipe",
                           [title |-> adv.title, owner |-> arch.name,
                            ref |-> resource, makes |-> r.makes])>>
            ELSE <<>>])

\* match &adv.kind
tier_failures(cfg, arch, adv) ==
    CASE adv.kind.tag = "Yield" -> yield_failures(cfg, arch, adv)
      [] adv.kind.tag = "Craft" ->
            Flatten([i \in 1..Len(adv.kind.recipes) |->
                        recipe_failures(cfg, arch, adv, adv.kind.recipes[i])])
      [] OTHER -> <<>>

\* second loop: every plant, every tier of all()
plant_failures(cfg) ==
    Flatten([p \in 1..Len(cfg.plant_archetypes) |->
        LET arch == cfg.plant_archetypes[p]
            tiers == all(arch.advancements)
        IN  Flatten([t \in 1..Len(tiers) |->
                        tier_failures(cfg, arch, tiers[t])])])

\* the test passes, or panics at the first assert! that fails
archetype_name_matches(cfg) ==
    LET failures == seed_failures(cfg) \o plant_failures(cfg)
    IN  IF failures = <<>> THEN Done("passed")
        ELSE Panicked(failures[1].msg, failures[1].info)

-----------------------------------------------------------------------------
(* SpecCorpus: a corpus, its validation and the sums of its plants *)

Titles == <<"seedling", "sprout", "sapling", "tree", "elder">>

CorpusPossessions ==
    {Archetype("acorn", Keepsake), Archetype("bark", Gotchi(5)),
     Archetype("pip", Seed("elm"))}

CorpusBaseKinds == {Xp(F(2, 0)), Yield(<< <<F(1, 0), "acorn">> >>)}
CorpusKinds ==
    {YieldNeighboringSize(F(2, 0)), Yield(<< <<F(1, 0), "acorn">> >>),
     Craft(<<Recipe(<< <<1, "bark">> >>, "acorn")>>)}

\* tiers at ascending thresholds 100, 500, 900, ...
CorpusSet(b, kinds) ==
    [base |-> Adv(b, 0, Titles[1]),
     rest |-> [i \in 1..Len(kinds) |->
                  Adv(kinds[i], 100 + 400 * (i - 1), Titles[i + 1])]]

Oaks ==
    {PlantArchetype("oak", CorpusSet(b, k)) :
        b \in CorpusBaseKinds, k \in SeqsUpTo(CorpusKinds, MaxPlantRest)}

Elm ==
    PlantArchetype("elm",
        CorpusSet(Xp(F(3, 0)), <<Yield(<< <<F(2, 0), "acorn">> >>)>>))

CorpusPlants == {<<>>} \cup {<<o>> : o \in Oaks} \cup {<<o, Elm>> : o \in Oaks}

InitCorpus ==
    /\ \E ps \in SeqsUpTo(CorpusPossessions, MaxPoss), pl \in CorpusPlants :
          Built(Config(<<>>, [base |-> HBase, rest |-> <<>>], pl, ps))
    /\ last = NoCall
    /\ prev = NoCall

Validate ==
    Record(Call("archetype_name_matches", 0, 0, archetype_name_matches(CONFIG)))

PSum(p, xp) ==
    Record(Call("sum", p, xp,
                sum("Plant", CONFIG, CONFIG.plant_archetypes[p].advancements, xp)))

PMax(p) ==
    Record(Call("max", p, 0,
                max("Plant", CONFIG, CONFIG.plant_archetypes[p].advancements)))

CorpusQueries == {150, 600}

NextCorpus ==
    \/ Validate
    \/ \E p \in 1..Len(CONFIG.plant_archetypes), xp \in CorpusQueries : PSum(p, xp)
    \/ \E p \in 1..Len(CONFIG.plant_archetypes) : PMax(p)

SpecCorpus == InitCorpus /\ [][NextCorpus]_vars

\* the archetype names a tier payload refers to
NamesIn(kind) ==
    CASE kind.tag = "Yield" ->
            {kind.resources[i][2] : i \in 1..Len(kind.resources)}
      [] kind.tag = "Craft" ->
            UNION {{kind.recipes[i].makes} \cup
                   {kind.recipes[i].needs[j][2] :
                       j \in 1..Len(kind.recipes[i].needs)} :
                   i \in 1..Len(kind.recipes)}
      [] OTHER -> {}

NamesOfTiers(tiers) == UNION {NamesIn(tiers[i].kind) : i \in 1..Len(tiers)}

PossessionNames ==
    {CONFIG.possession_archetypes[i].name :
        i \in 1..Len(CONFIG.possession_archetypes)}

PlantNames ==
    {CONFIG.plant_archetypes[i].name : i \in 1..Len(CONFIG.plant_archetypes)}

\* (owner, reference) of every dangling name of the corpus
DanglingSeeds ==
    {<<CONFIG.possession_archetypes[i].name,
       CONFIG.possession_archetypes[i].kind.grows_into>> :
        i \in {k \in 1..Len(CONFIG.possession_archetypes) :
                  /\ CONFIG.possession_archetypes[k].kind.tag = "Seed"
                  /\ CONFIG.possession_archetypes[k].kind.grows_into
                        \notin PlantNames}}

DanglingTierNames ==
    UNION {{<<CONFIG.plant_archetypes[p].name, n>> :
              n \in NamesOfTiers(<<CONFIG.plant_archetypes[p].advancements.base>>
                                 \o CONFIG.plant_archetypes[p].advancements.rest)
                    \ PossessionNames} :
           p \in 1..Len(CONFIG.plant_archetypes)}

\* C6: archetype_name_matches passes if and only if every Seed's grows_into
\* is the name of a plant archetype and every Yield resource, Craft makes and
\* Craft needs name of every tier of every plant (base included) is the name
\* of a possession archetype; when it fails, the failure names the owning
\* plant or archetype and the dangling reference.
C6_ValidatorAcceptsExactlyResolvedCorpora ==
    last.op = "archetype_name_matches" =>
        /\ ~last.out.panic <=> (DanglingSeeds = {} /\ DanglingTierNames = {})
        /\ last.out.panic =>
              <<last.out.val.info.owner, last.out.val.info.ref>>
                  \in DanglingSeeds \cup DanglingTierNames

\* a corpus whose only dangling name sits in the base tier of a plant
C6_Witness ==
    /\ last.op = "archetype_name_matches"
    /\ last.out.panic
    /\ last.out.val.info.owner = "oak"
    /\ last.out.val.info.ref = "acorn"
    /\ last.out.val.info.title = Titles[1]
    /\ DanglingSeeds = {}
    /\ Len(CONFIG.plant_archetypes) = 2
    /\ NamesOfTiers(CONFIG.plant_archetypes[1].advancements.rest) = {}

\* the slice of rest the recorded sum or max call handed to S::new
FoldedBy(c) ==
    IF c.op = "max" THEN CONFIG.plant_archetypes[c.on].advancements.rest
    ELSE sum_slice(CONFIG.plant_archetypes[c.on].advancements, c.arg).slice

Accepted(c) == c.op = "archetype_name_matches" /\ ~c.out.panic

\* C9: on a corpus archetype_name_matches accepts, no sum(xp) and no max() of
\* a plant's advancement set panics, and every name such a call resolves is a
\* name of a tier of all(), which the validator checked.
C9_AcceptedCorpusNeverAbortsAFold ==
    /\ (Accepted(prev) /\ last.op \in {"sum", "max"}) => ~last.out.panic
    /\ (Accepted(last) /\ prev.op \in {"sum", "max"}) => ~prev.out.panic
    /\ last.op \in {"sum", "max"} =>
          NamesOfTiers(FoldedBy(last)) \subseteq
              NamesOfTiers(all(CONFIG.plant_archetypes[last.on].advancements))

C9_Witness ==
    /\ Accepted(prev)
    /\ last.op = "sum"
    /\ last.arg = 150
    /\ ~last.out.panic
    /\ last.out.val.yields = << <<F(1, 0), 1>> >>
    /\ CONFIG.possession_archetypes[1].kind.tag = "Seed"

-----------------------------------------------------------------------------
(* SpecLazy: the first accesses of the CONFIG static by concurrent threads. *)
(* lazy_static! guards the initializer block with a Once: the first thread  *)
(* to arrive runs it, the others block until it has returned or panicked,   *)
(* and a Once whose initializer panicked is poisoned.                       *)

\* what the four documents deserialize to when they are readable and well formed
DocumentsConfig ==
    Config(<<"admin">>, ExampleSet,
           <<PlantArchetype("oak", CorpusSet(Xp(F(2, 0)), <<>>))>>,
           <<Archetype("acorn", Keepsake)>>)

DocStates == {"ok", "unreadable", "malformed"}

InitLazy ==
    /\ CONFIG = Unloaded
    /\ once = "incomplete"
    /\ docs \in [1..Len(Documents) -> DocStates]
    /\ building = 0
    /\ pc = [t \in Threads |-> "idle"]
    /\ seen = [t \in Threads |-> Unloaded]
    /\ builds = 0
    /\ last = NoCall
    /\ prev = NoCall

\* a first access that runs the initializer whenever CONFIG is not yet set
DerefUnguarded(t) ==
    /\ pc[t] = "idle"
    /\ IF once = "complete"
       THEN /\ seen' = [seen EXCEPT ![t] = CONFIG]
            /\ pc' = [pc EXCEPT ![t] = "done"]
            /\ UNCHANGED <<once, building, builds>>
       ELSE /\ once' = "running"
            /\ building' = 0
            /\ builds' = builds + 1
            /\ pc' = [pc EXCEPT ![t] = "initializing"]
            /\ UNCHANGED seen
    /\ UNCHANGED <<CONFIG, docs, last, prev>>

\* thread t dereferences CONFIG: Once::call_once
Deref(t) ==
    /\ pc[t] = "idle"
    /\ CASE once = "complete" ->
              /\ seen' = [seen EXCEPT ![t] = CONFIG]
              /\ pc' = [pc EXCEPT ![t] = "done"]
              /\ UNCHANGED <<once, building, builds>>
         [] once = "incomplete" ->
              /\ once' = "running"
              /\ building' = 0
              /\ builds' = builds + 1
              /\ pc' = [pc EXCEPT ![t] = "initializing"]
              /\ UNCHANGED seen
         [] once = "running" ->
              /\ pc' = [pc EXCEPT ![t] = "waiting"]
              /\ UNCHANGED <<once, building, builds, seen>>
         [] once = "poisoned" ->
              /\ pc' = [pc EXCEPT ![t] = "panicked"]
              /\ UNCHANGED <<once, building, builds, seen>>
    /\ UNCHANGED <<CONFIG, docs, last, prev>>

\* the initializer evaluates the next field of the Config literal: f(p)
ReadDocument(t) ==
    /\ pc[t] = "initializing"
    /\ building < Len(Documents)
    /\ LET d == building + 1
       IN  CASE docs[d] = "ok" ->
                  /\ building' = d
                  /\ UNCHANGED <<once, pc, last, prev>>
             [] docs[d] = "unreadable" ->
                  /\ once' = "poisoned"
                  /\ pc' = [pc EXCEPT ![t] = "panicked"]
                  /\ last' = Call("panic", t, Documents[d], "opening")
                  /\ prev' = last
                  /\ UNCHANGED building
             [] docs[d] = "malformed" ->
                  /\ once' = "poisoned"
                  /\ pc' = [pc EXCEPT ![t] = "panicked"]
                  /\ last' = Call("panic", t, Documents[d], "parsing")
                  /\ prev' = last
                  /\ UNCHANGED building
    /\ UNCHANGED <<CONFIG, docs, seen, builds>>

\* the initializer returns the Config; the Once completes; t reads the value
Publish(t) ==
    /\ pc[t] = "initializing"
    /\ building = Len(Documents)
    /\ CONFIG' = DocumentsConfig
    /\ once' = "complete"
    /\ seen' = [seen EXCEPT ![t] = DocumentsConfig]
    /\ pc' = [pc EXCEPT ![t] = "done"]
    /\ UNCHANGED <<docs, building, builds, last, prev>>

\* a thread blocked in call_once is released
Wake(t) ==
    /\ pc[t] = "waiting"
    /\ CASE once = "complete" ->
              /\ seen' = [seen EXCEPT ![t] = CONFIG]
              /\ pc' = [pc EXCEPT ![t] = "done"]
         [] once = "poisoned" ->
              /\ pc' = [pc EXCEPT ![t] = "panicked"]
              /\ UNCHANGED seen
         [] OTHER -> FALSE
    /\ UNCHANGED <<CONFIG, once, docs, building, builds, last, prev>>

NextLazy ==
    \E t \in Threads : Deref(t) \/ ReadDocument(t) \/ Publish(t) \/ Wake(t)

SpecLazy == InitLazy /\ [][NextLazy]_vars

AllDocsOk == \A d \in 1..Len(Documents) : docs[d] = "ok"

FirstBadDoc == Least({d \in 1..Len(Documents) : docs[d] # "ok"})

LazyOnce ==
    /\ builds <= 1
    /\ CONFIG.loaded => CONFIG = DocumentsConfig /\ once = "complete"
    /\ \A t \in Threads :
          /\ seen[t].loaded => seen[t] = CONFIG /\ CONFIG = DocumentsConfig
          /\ pc[t] = "done" <=> seen[t].loaded
          /\ pc[t] = "panicked" => ~AllDocsOk /\ once = "poisoned"
    /\ ~AllDocsOk => ~CONFIG.loaded /\ \A t \in Threads : ~seen[t].loaded
    /\ once = "poisoned" =>
          /\ last.op = "panic"
          /\ last.arg = Documents[FirstBadDoc]
          /\ last.out = (IF docs[FirstBadDoc] = "unreadable"
                         THEN "opening" ELSE "parsing")

LazyStable ==
    /\ CONFIG.loaded => CONFIG' = CONFIG
    /\ \A t \in Threads : seen[t].loaded => seen'[t] = seen[t]
    /\ once = "poisoned" => once' = "poisoned"

\* C8: however the first accesses of CONFIG by concurrent threads interleave,
\* the initializer runs at most once, a thread obtains either the complete
\* Config built from the four documents or none, all threads obtain the same
\* value, the value never changes once set, and an unreadable or malformed
\* document makes the initializer panic, naming the document, with no Config
\* ever produced.
C8_ConfigBuiltOnceOrNotAtAll == [](LazyOnce) /\ [][LazyStable]_vars

C8_Witness ==
    /\ \A t \in Threads : pc[t] = "done" /\ seen[t] = DocumentsConfig
    /\ builds = 1
    /\ CONFIG = DocumentsConfig

=============================================================================
